---- MODULE Spec2Model ----
(***************************************************************************)
(* Model of the BOINC RPC client crate (src/src/lib.rs).                   *)
(*                                                                         *)
(* Part 1: the Transport service, a tower::Service over                    *)
(* Arc<Mutex<Option<ConnState>>>.  poll_ready is synchronous and runs      *)
(* under try_lock; call returns a lazy future that locks the mutex, takes  *)
(* the state, runs one query and stores an Error on failure.               *)
(***************************************************************************)
EXTENDS Integers, Sequences, FiniteSets, TLC

\* Number of call sites that drive the one Transport (poll_ready, then call).
NumCallers == 2

Callers == 1..NumCallers

\* The mutex is free (no MutexGuard alive).
Free == 0

\* Absent error / absent session.
NoErr == "none"
NoSess == 0

\* Failures DaemonStream::connect can resolve to (TCP connect, handshake).
ConnectErrors == {"Connect", "Auth", "Network", "DataParse"}

\* Failures DaemonStream::query can resolve to.
QueryErrors == {"Network", "DataParse"}

\* Error::Null("Null state"), produced by poll_ready on an absent state.
NullError == "Null"

VARIABLES
    state,          \* Option<ConnState> behind the mutex
    guard,          \* holder of the MutexGuard, or Free
    pc,             \* per caller: position in the poll_ready / call protocol
    out,            \* per caller: result of its last poll_ready
    ret,            \* per caller: output of its last completed call future
    conn,           \* per caller: the DaemonStream its call future owns
    connCompleted,  \* times the connect future resolved (Ready(Ok) or Ready(Err))
    failure,        \* history: the first connect/query failure observed
    reply,          \* children of a reply envelope handed to a Client operation
    op,             \* the Client operation applied to reply ("none" before)
    result,         \* what that operation returned
    node,           \* an element handed to a record decoder
    dec,            \* the decoder applied to node ("none" before)
    decoded,        \* the record it produced
    daemon,         \* the daemon and session a reply comes from
    record,         \* a record handed to an encoder
    enc,            \* the encoder applied ("none" before)
    encoded,        \* the element it produced
    stream,         \* the bytes the daemon wrote for one reply, then end-of-stream
    delivered,      \* how many of them the socket has handed over
    chunk,          \* the bytes of the last read
    buf,            \* the receive buffer of the frame decoder
    frame           \* what the frame decoder returned ("none" before)

vars == <<state, guard, pc, out, ret, conn, connCompleted, failure,
          reply, op, result, node, dec, decoded, daemon, record, enc, encoded,
          stream, delivered, chunk, buf, frame>>

\* The variables of the reply and decoding parts; the Transport never
\* touches them.
codecVars ==
    <<reply, op, result, node, dec, decoded, daemon, record, enc, encoded,
      stream, delivered, chunk, buf, frame>>

\* The variables of the frame decoder.
frameVars == <<stream, delivered, chunk, buf, frame>>

\* The variables of the Transport part.
transportVars == <<state, guard, pc, out, ret, conn, connCompleted, failure>>

(***************************************************************************)
(* ConnState and Option<ConnState>                                         *)
(***************************************************************************)
StConnecting(f) == [tag |-> "Connecting", fut |-> f, sess |-> NoSess, err |-> NoErr]
StReady(s) == [tag |-> "Ready", fut |-> 0, sess |-> s, err |-> NoErr]
StError(e) == [tag |-> "Error", fut |-> 0, sess |-> NoSess, err |-> e]
StNone == [tag |-> "None", fut |-> 0, sess |-> NoSess, err |-> NoErr]

\* Poll<Result<(), Error>> as returned by poll_ready; branch names the arm
\* of poll_ready that produced it.
PollPending(b) == [kind |-> "Pending", err |-> NoErr, branch |-> b]
PollOk(b) == [kind |-> "Ok", err |-> NoErr, branch |-> b]
PollErr(e, b) == [kind |-> "Err", err |-> e, branch |-> b]
NotPolled == [kind |-> "NotPolled", err |-> NoErr, branch |-> "none"]

\* Result<Vec<Element>, Error> of a call future.
RetOk == [kind |-> "Ok", err |-> NoErr]
RetErr(e) == [kind |-> "Err", err |-> e]
NoRet == [kind |-> "NoRet", err |-> NoErr]

\* What polling the pending connect future can yield.
ConnectPolls ==
    {[kind |-> "Pending", err |-> NoErr], [kind |-> "Ok", err |-> NoErr]}
        \cup {[kind |-> "Err", err |-> e] : e \in ConnectErrors}

\* What awaiting conn.query(req) can yield.
QueryResults == {RetOk} \cup {RetErr(e) : e \in QueryErrors}

NoFailure == [src |-> "none", err |-> NoErr]

(***************************************************************************)
(* Transport::new                                                          *)
(***************************************************************************)
\* No reply is being read from the socket.
FrameIdle ==
    /\ stream = <<>>
    /\ delivered = 0
    /\ chunk = <<>>
    /\ buf = <<>>
    /\ frame = [kind |-> "none"]

\* No record has been handed to an encoder.
EncodeIdle ==
    /\ record = [kind |-> "none"]
    /\ enc = "none"
    /\ encoded = [name |-> "none"]

\* No reply has been received and nothing has been decoded.
CodecIdle ==
    /\ reply = <<>>
    /\ op = "none"
    /\ result = [kind |-> "none"]
    /\ node = [name |-> "none"]
    /\ dec = "none"
    /\ decoded = [kind |-> "none"]
    /\ EncodeIdle
    /\ FrameIdle
    /\ daemon = [protected |-> FALSE, password |-> FALSE]

\* The Transport as built by Transport::new.
TransportNew ==
    /\ state = StConnecting(1)
    /\ guard = Free
    /\ pc = [c \in Callers |-> "idle"]
    /\ out = [c \in Callers |-> NotPolled]
    /\ ret = [c \in Callers |-> NoRet]
    /\ conn = [c \in Callers |-> NoSess]
    /\ connCompleted = 0
    /\ failure = NoFailure

Init ==
    /\ TransportNew
    /\ CodecIdle

(***************************************************************************)
(* Transport::poll_ready                                                   *)
(***************************************************************************)
\* Variant of TryLock: try_lock never fails (the guard is not consulted).
TryLockAlways == TRUE

\* self.state.try_lock() succeeds.
TryLock == guard = Free

\* Arm Some(ConnState::Connecting(future)): poll the future once.
PollConnecting(st, res) ==
    CASE res.kind = "Pending" ->
            [state |-> StConnecting(st.fut), out |-> PollPending("connecting")]
      [] res.kind = "Ok" ->
            [state |-> StReady(st.fut), out |-> PollOk("connecting")]
      [] OTHER ->
            [state |-> StNone, out |-> PollErr(res.err, "connecting")]

\* Variant of PollReadyArm: the taken state is not put back.
PollReadyArmTakes(st) == [state |-> StNone, out |-> PollOk("ready")]

\* Arm Some(ConnState::Ready(conn)).
PollReadyArm(st) == [state |-> StReady(st.sess), out |-> PollOk("ready")]

\* Variant of PollError: a stored error triggers a reconnect with a new
\* connect future.
PollErrorRetry(st) ==
    [state |-> StConnecting(st.fut + 2), out |-> PollErr(st.err, "error")]

\* Arm Some(ConnState::Error(error)).
PollError(st) == [state |-> StError(st.err), out |-> PollErr(st.err, "error")]

\* Arm None.
PollNull(st) == [state |-> StNone, out |-> PollErr(NullError, "null")]

\* The match on g.take(): (old state, poll of the connect future) -> (state, out).
PollTransition(st, res) ==
    CASE st.tag = "Connecting" -> PollConnecting(st, res)
      [] st.tag = "Ready" -> PollReadyArm(st)
      [] st.tag = "Error" -> PollError(st)
      [] OTHER -> PollNull(st)

\* Caller c runs poll_ready to completion (it is synchronous).
PollReady(c) ==
    /\ pc[c] = "idle"
    /\ IF ~TryLock
       THEN /\ out' = [out EXCEPT ![c] = PollPending("try_lock")]
            /\ UNCHANGED <<state, guard, pc, ret, conn, connCompleted, failure>>
            /\ UNCHANGED codecVars
       ELSE \E res \in ConnectPolls :
              LET t == PollTransition(state, res)
                  resolved == state.tag = "Connecting" /\ res.kind # "Pending"
              IN /\ state' = t.state
                 /\ out' = [out EXCEPT ![c] = t.out]
                 /\ pc' = [pc EXCEPT ![c] = IF t.out.kind = "Ok" THEN "ready" ELSE "idle"]
                 /\ connCompleted' = IF resolved THEN connCompleted + 1 ELSE connCompleted
                 /\ failure' = IF resolved /\ res.kind = "Err" /\ failure = NoFailure
                               THEN [src |-> "connect", err |-> res.err]
                               ELSE failure
                 /\ UNCHANGED <<guard, ret, conn>>
                 /\ UNCHANGED codecVars

(***************************************************************************)
(* Transport::call                                                         *)
(***************************************************************************)
\* call(req): clone the Arc and box the async block; nothing runs yet.
Call(c) ==
    /\ pc[c] = "ready"
    /\ pc' = [pc EXCEPT ![c] = "waiting"]
    /\ UNCHANGED <<state, guard, out, ret, conn, connCompleted, failure>>
    /\ UNCHANGED codecVars

\* Variant of CanLock: the lock is granted although another guard is alive.
CanLockAlways == TRUE

\* state.lock().await can resolve.
CanLock == guard = Free

\* state.lock().await resolves: the future of c now owns the MutexGuard.
CallLock(c) ==
    /\ pc[c] = "waiting"
    /\ CanLock
    /\ guard' = c
    /\ pc' = [pc EXCEPT ![c] = "locked"]
    /\ UNCHANGED <<state, out, ret, conn, connCompleted, failure>>
    /\ UNCHANGED codecVars

\* Option::take: the value moved out and the value left behind.
TakeState(st) == [taken |-> st, left |-> StNone]

\* let Some(ConnState::Ready(mut conn)) = state.take() else { unreachable!() };
\* then conn.query(req) starts.  On the else branch the future panics and the
\* unwinding drops the guard.
CallTake(c) ==
    /\ pc[c] = "locked"
    /\ LET t == TakeState(state)
       IN /\ state' = t.left
          /\ IF t.taken.tag = "Ready"
             THEN /\ conn' = [conn EXCEPT ![c] = t.taken.sess]
                  /\ pc' = [pc EXCEPT ![c] = "query"]
                  /\ UNCHANGED guard
             ELSE /\ pc' = [pc EXCEPT ![c] = "panicked"]
                  /\ guard' = IF guard = c THEN Free ELSE guard
                  /\ UNCHANGED conn
    /\ UNCHANGED <<out, ret, connCompleted, failure>>
    /\ UNCHANGED codecVars

\* if let Err(e) = &query_res { *state = Some(ConnState::Error(e.clone())); }
AfterQuery(st, r) == IF r.kind = "Err" THEN StError(r.err) ELSE st

\* conn.query(req).await resolves; the block stores an error if any, returns
\* query_res and drops conn and the guard.
QueryDone(c) ==
    /\ pc[c] = "query"
    /\ \E r \in QueryResults :
         /\ state' = AfterQuery(state, r)
         /\ ret' = [ret EXCEPT ![c] = r]
         /\ failure' = IF r.kind = "Err" /\ failure = NoFailure
                       THEN [src |-> "query", err |-> r.err]
                       ELSE failure
    /\ conn' = [conn EXCEPT ![c] = NoSess]
    /\ guard' = IF guard = c THEN Free ELSE guard
    /\ pc' = [pc EXCEPT ![c] = "done"]
    /\ UNCHANGED <<out, connCompleted>>
    /\ UNCHANGED codecVars

\* The call future is dropped before it started its query (while waiting for
\* the lock, or right after the lock was granted to it).
DropWaiting(c) ==
    /\ pc[c] \in {"waiting", "locked"}
    /\ pc' = [pc EXCEPT ![c] = "cancelled"]
    /\ guard' = IF guard = c THEN Free ELSE guard
    /\ UNCHANGED <<state, out, ret, conn, connCompleted, failure>>
    /\ UNCHANGED codecVars

\* The call future is dropped while conn.query(req) is pending: conn and the
\* guard are dropped with it, nothing is written to the state.
DropMidQuery(c) ==
    /\ pc[c] = "query"
    /\ pc' = [pc EXCEPT ![c] = "abandoned"]
    /\ conn' = [conn EXCEPT ![c] = NoSess]
    /\ guard' = IF guard = c THEN Free ELSE guard
    /\ UNCHANGED <<state, out, ret, connCompleted, failure>>
    /\ UNCHANGED codecVars

\* The caller goes on to its next operation (Client methods run one after
\* another: ready().await, then call().await).
Again(c) ==
    /\ pc[c] = "done"
    /\ pc' = [pc EXCEPT ![c] = "idle"]
    /\ UNCHANGED <<state, guard, out, ret, conn, connCompleted, failure>>
    /\ UNCHANGED codecVars

Next ==
    \E c \in Callers :
        \/ PollReady(c)
        \/ Call(c)
        \/ CallLock(c)
        \/ CallTake(c)
        \/ QueryDone(c)
        \/ DropWaiting(c)
        \/ DropMidQuery(c)
        \/ Again(c)

Spec == Init /\ [][Next]_vars

\* The task of caller c will be polled again: it has not been polled yet, or
\* its last poll_ready did not end at the failed try_lock, which returns
\* Poll::Pending without handing cx.waker() to anyone.
Woken(c) == out[c] # PollPending("try_lock")

\* The executor polls a woken task.
Repoll(c) == PollReady(c) /\ Woken(c)

\* Scheduling: woken tasks are polled, the connect and query futures
\* resolve, and the tokio Mutex serves its waiters in turn.  A call future is
\* never forced to be dropped.
Fairness ==
    \A c \in Callers :
        /\ WF_vars(Repoll(c))
        /\ WF_vars(Call(c))
        /\ SF_vars(CallLock(c))
        /\ WF_vars(CallTake(c))
        /\ WF_vars(QueryDone(c))
        /\ WF_vars(Again(c))

SpecLive == Init /\ [][Next]_vars /\ Fairness

(***************************************************************************)
(* Properties of the Transport service                                     *)
(***************************************************************************)

\* C1: when the query run by a call succeeds, the state is Ready again with
\* the session the call had taken, at the step at which the call completes.
C1_SuccessRestoresReady ==
    [][\A c \in Callers :
          (pc[c] = "query" /\ pc'[c] = "done" /\ ret'[c].kind = "Ok")
              => (state'.tag = "Ready" /\ state'.sess = conn[c])]_vars

\* C2: when the query of a call fails with e, the call returns e and the
\* state becomes Error(e); every poll_ready result that is an error, from then
\* on, is exactly e.
C2_QueryFailureSticks ==
    /\ [][\A c \in Callers :
            (pc[c] = "query" /\ pc'[c] = "done" /\ ret'[c].kind = "Err")
                => state' = StError(ret'[c].err)]_vars
    /\ [](failure.src = "query"
            => \A c \in Callers : out[c].kind = "Err" => out[c].err = failure.err)

\* C3: when the connect future polled by poll_ready fails with e, that
\* poll_ready reports e, the state becomes Error(e), and every later
\* poll_ready error is the same e.
C3_ConnectFailureSticks ==
    /\ [][(failure = NoFailure /\ failure'.src = "connect")
            => /\ state' = StError(failure'.err)
               /\ \E c \in Callers : out'[c] = PollErr(failure'.err, "connecting")]_vars
    /\ [](failure.src = "connect"
            => \A c \in Callers : out[c].kind = "Err" => out[c].err = failure.err)

\* C4: Error is absorbing: once the state is Error(e), no step changes it
\* (so it never becomes Connecting or Ready, e is kept, no connect is started).
C4_ErrorAbsorbing ==
    [][state.tag = "Error" => state' = state]_vars

\* C5: while the query of one call is executing, no other call is inside the
\* guarded section (holding the lock or running a query).
C5_OneQueryAtATime ==
    /\ Cardinality({c \in Callers : pc[c] = "query"}) <= 1
    /\ \A c1, c2 \in Callers :
          (c1 # c2 /\ pc[c1] = "query") => pc[c2] \notin {"locked", "query"}

\* C5 witness: one call is running its query while a second call has been
\* issued and waits for the lock.
C5_Witness ==
    \E c1, c2 \in Callers : c1 # c2 /\ pc[c1] = "query" /\ pc[c2] = "waiting"

\* C6: whenever the guard is not held the state is one of Connecting, Ready,
\* Error, and no poll_ready ever reports Error::Null.
C6_NeverNullState ==
    /\ guard = Free => state.tag \in {"Connecting", "Ready", "Error"}
    /\ \A c \in Callers : out[c].err # NullError

\* C7: no call of a caller that observed poll_ready = ready reaches the
\* unreachable!() branch.
C7_NoUnreachable ==
    \A c \in Callers : pc[c] # "panicked"

\* C8: a poll_ready that runs while another caller holds the guard returns
\* Pending and changes nothing else: state, guard and every caller's position
\* are as before (no request is queued).
C8_BusyPollIsPending ==
    [][\A c \in Callers :
          (PollReady(c) /\ guard # Free)
              => /\ out'[c].kind = "Pending"
                 /\ state' = state
                 /\ guard' = guard
                 /\ pc' = pc]_vars

\* C8 witness: a caller got Pending from the try_lock arm while another
\* caller's call holds the guard in the middle of its query.
C8_Witness ==
    \E c1, c2 \in Callers :
        /\ c1 # c2
        /\ guard = c1 /\ pc[c1] = "query"
        /\ pc[c2] = "idle" /\ out[c2] = PollPending("try_lock")

\* C9: once a call future was dropped in the middle of its query, the state
\* is Error.
C9_AbandonedQueryPoisons ==
    \A c \in Callers : pc[c] = "abandoned" => state.tag = "Error"

\* C10: the only connect future is the one created by Transport::new, it
\* resolves at most once, and once it has resolved the state is never
\* Connecting again.
C10_ConnectOnce ==
    /\ connCompleted <= 1
    /\ state.tag = "Connecting" => (state.fut = 1 /\ connCompleted = 0)

\* C10 witness: the connect future has resolved, a later query failed, and
\* poll_ready has since run on the stored error without reconnecting.
C10_Witness ==
    /\ connCompleted = 1
    /\ state.tag = "Error"
    /\ \E c \in Callers : out[c].branch = "error"

\* The step is a poll_ready of c during which the connect future resolved
\* successfully.
ConnectSucceeds(c) ==
    /\ PollReady(c)
    /\ connCompleted' # connCompleted
    /\ failure' = failure

\* C24 as stated: a poll_ready in Connecting whose connect future is still
\* pending returns Pending and keeps the same Connecting state; one whose
\* connect future succeeds makes the state Ready and returns ready; every
\* poll_ready in Ready returns ready and leaves state and session unchanged.
C24_ReadyPollAlwaysReady ==
    [][\A c \in Callers :
          PollReady(c)
              => /\ (state.tag = "Connecting" /\ connCompleted' = connCompleted)
                        => (out'[c].kind = "Pending" /\ state' = state)
                 /\ ConnectSucceeds(c)
                        => (state'.tag = "Ready" /\ out'[c].kind = "Ok")
                 /\ state.tag = "Ready"
                        => (out'[c].kind = "Ok" /\ state' = state)]_vars

\* C24 (amended): as above, but in Ready the poll returns ready, leaving state
\* and session unchanged, when it acquires the guard; a poll_ready that finds
\* the guard held returns Pending whatever the state.
C24_ConnectingThenReady ==
    [][\A c \in Callers :
          PollReady(c)
              => /\ (state.tag = "Connecting" /\ connCompleted' = connCompleted)
                        => (out'[c].kind = "Pending" /\ state' = state)
                 /\ ConnectSucceeds(c)
                        => (state'.tag = "Ready" /\ out'[c].kind = "Ok")
                 /\ (state.tag = "Ready" /\ guard = Free)
                        => (out'[c] = PollOk("ready") /\ state' = state)
                 /\ (state.tag = "Ready" /\ guard # Free)
                        => (out'[c].kind = "Pending" /\ state' = state)]_vars

\* C24 witness: one caller saw the connect future succeed, and another caller
\* then polled the Ready state, which still holds the session of that future.
C24_Witness ==
    \E c1, c2 \in Callers :
        /\ c1 # c2
        /\ out[c1] = PollOk("connecting")
        /\ out[c2] = PollOk("ready")
        /\ state = StReady(1)

\* C25: a caller whose poll_ready returned Pending because the guard was
\* held is eventually polled again and then observes ready or an error.
C25_BusyPollEventuallyServed ==
    \A c \in Callers :
        (out[c] = PollPending("try_lock")) ~> (out[c].kind \in {"Ok", "Err"})

(***************************************************************************)
(* Part 2: element trees, text conversions and the record decoders         *)
(* (src/src/util.rs, src/src/messages/helpers.rs, src/src/models.rs,       *)
(* src/src/messages/exchange_versions.rs).                                 *)
(*                                                                         *)
(* Option<T> is a sequence: <<>> is None and <<v>> is Some(v).  Parsed     *)
(* numbers are kept as their canonical decimal text, so "+7" and "7" parse *)
(* to the same i64 and values outside a type's range are representable.    *)
(***************************************************************************)

\* Longest list of children of an element handed to a decoder.
MaxChildren == 3

\* Longest list of children of a reply envelope.
MaxReplyLen == 3

None == <<>>
Some(v) == <<v>>

\* treexml::Element: name, text, cdata, children (attributes are never read).
El(n, t, ch) == [name |-> n, text |-> t, cdata |-> None, children |-> ch]

\* Element::new(name) with a text.
Leaf(n, t) == El(n, Some(t), <<>>)

\* Element::new(name).
Empty(n) == El(n, None, <<>>)

\* str::parse::<i64>: the texts that are integer literals, with their value.
IntCanon ==
    ("0" :> "0") @@ ("5" :> "5") @@ ("7" :> "7") @@ ("+7" :> "7") @@ ("8" :> "8")
        @@ ("16" :> "16") @@ ("-107" :> "-107") @@ ("3000000000" :> "3000000000")

\* Integer values outside the range of i32.
WideInts == {"3000000000"}

\* Integer values below zero.
NegativeInts == {"-107"}

\* str::parse::<f64>: the texts that are float literals, with their value.
FloatCanon ==
    ("0" :> "0.0") @@ ("5" :> "5.0") @@ ("7" :> "7.0") @@ ("+7" :> "7.0")
        @@ ("8" :> "8.0") @@ ("16" :> "16.0") @@ ("-107" :> "-107.0")
        @@ ("3000000000" :> "3000000000.0") @@ ("1.5" :> "1.5")

\* str::trim on the texts that have surrounding whitespace.
TrimTable == (" 7 " :> "7") @@ (" x" :> "x")

\* v.parse::<T>().ok() for the types the crate parses.
ParseAs(ty, t) ==
    CASE ty = "i64" -> IF t \in DOMAIN IntCanon THEN Some(IntCanon[t]) ELSE None
      [] ty = "i32" -> IF t \in DOMAIN IntCanon /\ IntCanon[t] \notin WideInts
                       THEN Some(IntCanon[t]) ELSE None
      [] ty = "u64" -> IF t \in DOMAIN IntCanon /\ IntCanon[t] \notin NegativeInts
                       THEN Some(IntCanon[t]) ELSE None
      [] ty = "f64" -> IF t \in DOMAIN FloatCanon THEN Some(FloatCanon[t]) ELSE None
      [] ty = "bool" -> IF t \in {"true", "false"} THEN Some(t) ELSE None
      [] OTHER -> Some(t)

\* Variant of EvalNodeContents: a text that does not parse yields the type's
\* default value instead of None.
EvalNodeContentsDefault(ty, n) ==
    IF n.text = None THEN None
    ELSE IF ParseAs(ty, n.text[1]) = None THEN Some("0") ELSE ParseAs(ty, n.text[1])

\* util::eval_node_contents::<T>.
EvalNodeContents(ty, n) ==
    IF n.text = None THEN None ELSE ParseAs(ty, n.text[1])

\* util::any_text.
AnyText(n) ==
    IF n.cdata # None THEN n.cdata
    ELSE IF n.text # None THEN n.text
    ELSE None

\* util::trimmed_optional.
TrimmedOptional(o) ==
    IF o = None THEN None
    ELSE Some(IF o[1] \in DOMAIN TrimTable THEN TrimTable[o[1]] ELSE o[1])

\* node.filter_children(|tag| tag.name == name).collect()
FilterChildren(n, name) == SelectSeq(n.children, LAMBDA ch : ch.name = name)

\* Variant of ParseNode: the first matching child is used.
ParseNodeFirst(ty, name, n) ==
    LET children == FilterChildren(n, name)
    IN IF children = <<>> THEN None
       ELSE IF children[1].text = None THEN None
       ELSE ParseAs(ty, children[1].text[1])

\* helpers::parse_node::<T>: the last child called name, its text parsed.
ParseNode(ty, name, n) ==
    LET children == FilterChildren(n, name)
    IN IF children = <<>> THEN None
       ELSE LET tag == children[Len(children)]
            IN IF tag.text = None THEN None ELSE ParseAs(ty, tag.text[1])

(***************************************************************************)
(* The match arms of each impl From<&treexml::Element>: child tag ->       *)
(* assigned field and conversion.                                          *)
(***************************************************************************)
Arm(f, c) == [field |-> f, conv |-> c]

\* Variant of VersionInfoArms: the major and minor tags fill each other's
\* field.
VersionInfoArmsSwapped ==
    ("major" :> Arm("minor", "i64")) @@ ("minor" :> Arm("major", "i64"))
        @@ ("release" :> Arm("release", "i64"))

VersionInfoArms ==
    ("major" :> Arm("major", "i64")) @@ ("minor" :> Arm("minor", "i64"))
        @@ ("release" :> Arm("release", "i64"))

VersionInfoFields == {"major", "minor", "release"}

HostInfoArms ==
    ("p_fpops" :> Arm("p_fpops", "f64")) @@ ("p_iops" :> Arm("p_iops", "f64"))
        @@ ("p_membw" :> Arm("p_membw", "f64"))
        @@ ("p_calculated" :> Arm("p_calculated", "f64"))
        @@ ("p_vm_extensions_disabled" :> Arm("p_vm_extensions_disabled", "bool"))
        @@ ("host_cpid" :> Arm("host_cpid", "text"))
        @@ ("product_name" :> Arm("product_name", "text"))
        @@ ("mac_address" :> Arm("mac_address", "text"))
        @@ ("domain_name" :> Arm("domain_name", "text"))
        @@ ("ip_addr" :> Arm("ip_addr", "text"))
        @@ ("p_vendor" :> Arm("p_vendor", "text"))
        @@ ("p_model" :> Arm("p_model", "text"))
        @@ ("os_name" :> Arm("os_name", "text"))
        @@ ("os_version" :> Arm("os_version", "text"))
        @@ ("virtualbox_version" :> Arm("virtualbox_version", "text"))
        @@ ("p_features" :> Arm("p_features", "text"))
        @@ ("timezone" :> Arm("tz_shift", "i64"))
        @@ ("p_ncpus" :> Arm("p_ncpus", "i64"))
        @@ ("m_nbytes" :> Arm("m_nbytes", "f64"))
        @@ ("m_cache" :> Arm("m_cache", "f64"))
        @@ ("m_swap" :> Arm("m_swap", "f64"))
        @@ ("d_total" :> Arm("d_total", "f64"))
        @@ ("d_free" :> Arm("d_free", "f64"))

HostInfoFields ==
    {"tz_shift", "domain_name", "serialnum", "ip_addr", "host_cpid", "p_ncpus",
     "p_vendor", "p_model", "p_features", "p_fpops", "p_iops", "p_membw",
     "p_calculated", "p_vm_extensions_disabled", "m_nbytes", "m_cache", "m_swap",
     "d_total", "d_free", "os_name", "os_version", "product_name", "mac_address",
     "virtualbox_version"}

ProjectInfoArms ==
    ("name" :> Arm("name", "trim_any")) @@ ("summary" :> Arm("summary", "trim_any"))
        @@ ("url" :> Arm("url", "trim_any"))
        @@ ("general_area" :> Arm("general_area", "trim_any"))
        @@ ("specific_area" :> Arm("specific_area", "trim_any"))
        @@ ("description" :> Arm("description", "trim_any"))
        @@ ("home" :> Arm("home", "trim_any"))
        @@ ("platfroms" :> Arm("platforms", "platforms"))
        @@ ("image" :> Arm("image", "trim_any"))

ProjectInfoFields ==
    {"name", "summary", "url", "general_area", "specific_area", "description",
     "home", "platforms", "image"}

AccountManagerInfoArms ==
    ("acct_mgr_url" :> Arm("url", "trim_any"))
        @@ ("acct_mgr_name" :> Arm("name", "trim_any"))
        @@ ("have_credentials" :> Arm("have_credentials", "true"))
        @@ ("cookie_required" :> Arm("cookie_required", "true"))
        @@ ("cookie_failure_url" :> Arm("cookie_failure_url", "trim_any"))

AccountManagerInfoFields ==
    {"url", "name", "have_credentials", "cookie_required", "cookie_failure_url"}

MessageArms ==
    ("body" :> Arm("body", "trim_cdata")) @@ ("project" :> Arm("project_name", "trim_text"))
        @@ ("pri" :> Arm("priority", "i64")) @@ ("seqno" :> Arm("msg_number", "i64"))
        @@ ("time" :> Arm("timestamp", "i64"))

MessageFields == {"project_name", "priority", "msg_number", "body", "timestamp"}

TaskResultArms ==
    ("name" :> Arm("name", "trim_text")) @@ ("wu_name" :> Arm("wu_name", "trim_text"))
        @@ ("platform" :> Arm("platform", "trim_text"))
        @@ ("version_num" :> Arm("version_num", "i64"))
        @@ ("plan_class" :> Arm("plan_class", "trim_text"))
        @@ ("project_url" :> Arm("project_url", "trim_text"))
        @@ ("final_cpu_time" :> Arm("final_cpu_time", "f64"))
        @@ ("final_elapsed_time" :> Arm("final_elapsed_time", "f64"))
        @@ ("exit_status" :> Arm("exit_status", "i64"))
        @@ ("state" :> Arm("state", "i64"))
        @@ ("report_deadline" :> Arm("report_deadline", "f64"))
        @@ ("received_time" :> Arm("received_time", "f64"))
        @@ ("estimated_cpu_time_remaining" :> Arm("estimated_cpu_time_remaining", "f64"))
        @@ ("completed_time" :> Arm("completed_time", "f64"))
        @@ ("active_task" :> Arm("active_task", "active_task"))

TaskResultFields ==
    {"name", "wu_name", "platform", "version_num", "plan_class", "project_url",
     "final_cpu_time", "final_elapsed_time", "exit_status", "state",
     "report_deadline", "received_time", "estimated_cpu_time_remaining",
     "completed_time", "active_task"}

ActiveTaskArms ==
    ("active_task_state" :> Arm("active_task_state", "trim_text"))
        @@ ("app_version_num" :> Arm("app_version_num", "trim_text"))
        @@ ("slot" :> Arm("slot", "u64")) @@ ("pid" :> Arm("pid", "u64"))
        @@ ("scheduler_state" :> Arm("scheduler_state", "trim_text"))
        @@ ("checkpoint_cpu_time" :> Arm("checkpoint_cpu_time", "f64"))
        @@ ("fraction_done" :> Arm("fraction_done", "f64"))
        @@ ("current_cpu_time" :> Arm("current_cpu_time", "f64"))
        @@ ("elapsed_time" :> Arm("elapsed_time", "f64"))
        @@ ("swap_size" :> Arm("swap_size", "f64"))
        @@ ("working_set_size" :> Arm("working_set_size", "f64"))
        @@ ("working_set_size_smoothed" :> Arm("working_set_size_smoothed", "f64"))
        @@ ("page_fault_rate" :> Arm("page_fault_rate", "f64"))
        @@ ("bytes_sent" :> Arm("bytes_sent", "f64"))
        @@ ("bytes_received" :> Arm("bytes_received", "f64"))
        @@ ("progress_rate" :> Arm("progress_rate", "f64"))

ActiveTaskFields ==
    {"active_task_state", "app_version_num", "slot", "pid", "scheduler_state",
     "checkpoint_cpu_time", "fraction_done", "current_cpu_time", "elapsed_time",
     "swap_size", "working_set_size", "working_set_size_smoothed",
     "page_fault_rate", "bytes_sent", "bytes_received", "progress_rate"}

\* The records of models.rs.
Models ==
    {"VersionInfo", "HostInfo", "ProjectInfo", "AccountManagerInfo", "Message",
     "TaskResult", "ActiveTask"}

ArmsOf(m) ==
    CASE m = "VersionInfo" -> VersionInfoArms
      [] m = "HostInfo" -> HostInfoArms
      [] m = "ProjectInfo" -> ProjectInfoArms
      [] m = "AccountManagerInfo" -> AccountManagerInfoArms
      [] m = "Message" -> MessageArms
      [] m = "TaskResult" -> TaskResultArms
      [] OTHER -> ActiveTaskArms

FieldsOf(m) ==
    CASE m = "VersionInfo" -> VersionInfoFields
      [] m = "HostInfo" -> HostInfoFields
      [] m = "ProjectInfo" -> ProjectInfoFields
      [] m = "AccountManagerInfo" -> AccountManagerInfoFields
      [] m = "Message" -> MessageFields
      [] m = "TaskResult" -> TaskResultFields
      [] OTHER -> ActiveTaskFields

\* Self::default() of the derived Default: every field None.
DefaultRecord(m) == [f \in FieldsOf(m) |-> None]

\* The "platfroms" arm: the texts of the children called platform, in order.
RECURSIVE PlatformTexts(_, _)
PlatformTexts(ch, i) ==
    IF i > Len(ch) THEN <<>>
    ELSE IF ch[i].name = "platform" /\ ch[i].text # None
         THEN <<ch[i].text[1]>> \o PlatformTexts(ch, i + 1)
         ELSE PlatformTexts(ch, i + 1)

RECURSIVE FromElement(_, _)
RECURSIVE FromChildren(_, _, _, _)

\* Variant of ArmValue: the active_task arm does not descend into the child.
ArmValueNoDescent(conv, n) ==
    CASE conv \in {"i64", "u64", "f64", "bool"} -> EvalNodeContents(conv, n)
      [] conv = "text" -> n.text
      [] conv = "trim_text" -> TrimmedOptional(n.text)
      [] conv = "trim_cdata" -> TrimmedOptional(n.cdata)
      [] conv = "trim_any" -> TrimmedOptional(AnyText(n))
      [] conv = "true" -> Some("true")
      [] conv = "platforms" -> Some(PlatformTexts(n.children, 1))
      [] OTHER -> Some(DefaultRecord("ActiveTask"))

\* The value one match arm assigns to its field.
ArmValue(conv, n) ==
    CASE conv \in {"i64", "u64", "f64", "bool"} -> EvalNodeContents(conv, n)
      [] conv = "text" -> n.text
      [] conv = "trim_text" -> TrimmedOptional(n.text)
      [] conv = "trim_cdata" -> TrimmedOptional(n.cdata)
      [] conv = "trim_any" -> TrimmedOptional(AnyText(n))
      [] conv = "true" -> Some("true")
      [] conv = "platforms" -> Some(PlatformTexts(n.children, 1))
      [] OTHER -> Some(FromElement("ActiveTask", n))

\* Variant of MatchChild: a child whose tag has no arm resets the record.
MatchChildStrict(m, e, n) ==
    IF n.name \in DOMAIN ArmsOf(m)
    THEN [e EXCEPT ![ArmsOf(m)[n.name].field] = ArmValue(ArmsOf(m)[n.name].conv, n)]
    ELSE DefaultRecord(m)

\* One iteration of `for n in &node.children { match &*n.name { ... } }`.
MatchChild(m, e, n) ==
    IF n.name \in DOMAIN ArmsOf(m)
    THEN [e EXCEPT ![ArmsOf(m)[n.name].field] = ArmValue(ArmsOf(m)[n.name].conv, n)]
    ELSE e

\* Variant of FromChildren: a child whose arm yields None leaves the value of
\* an earlier sibling in place.
FromChildrenFallback(m, ch, i, e) ==
    IF i > Len(ch) THEN e
    ELSE FromChildren(m, ch, i + 1,
                      IF ch[i].name \in DOMAIN ArmsOf(m)
                            /\ ArmValue(ArmsOf(m)[ch[i].name].conv, ch[i]) = None
                      THEN e
                      ELSE MatchChild(m, e, ch[i]))

\* The loop over node.children from child i on, e being the record so far.
FromChildren(m, ch, i, e) ==
    IF i > Len(ch) THEN e ELSE FromChildren(m, ch, i + 1, MatchChild(m, e, ch[i]))

\* impl From<&treexml::Element> for the record m of models.rs.
FromElement(m, n) == FromChildren(m, n.children, 1, DefaultRecord(m))

\* impl From<&treexml::Element> for messages::exchange_versions::ExchangeVersions.
ExchangeVersionsFrom(n) ==
    [major |-> ParseNode("i64", "major", n),
     minor |-> ParseNode("i64", "minor", n),
     release |-> ParseNode("i64", "release", n),
     name |-> ParseNode("String", "name", n)]

(***************************************************************************)
(* Part 3: the reply validator and the Client operations (src/src/lib.rs). *)
(***************************************************************************)

\* errors::Error: the variant and its payload (a message, or the status code).
E(k, m) == [kind |-> k, msg |-> m]

\* Result<T, Error>.
Ok(v) == [kind |-> "Ok", val |-> v]
Fail(e) == [kind |-> "Err", err |-> e]

\* The unit value ().
Unit == "()"

\* The names verify_rpc_reply_contents returns on.
TerminalTags == {"status", "unauthorized", "error"}

RECURSIVE VerifyFrom(_, _, _)

\* Variant of SuccessArm: a success tag ends the scan.
SuccessArmStops(data, i, success) == Ok(TRUE)

\* Arm "success": set the flag and go on with the next node.
SuccessArm(data, i, success) == VerifyFrom(data, i + 1, TRUE)

\* Variant of StatusArm: a status tag is skipped once success was seen.
StatusArmAfterSuccess(data, i, success) ==
    IF success THEN VerifyFrom(data, i + 1, success)
    ELSE Fail(E("Status", IF EvalNodeContents("i32", data[i]) = None THEN "9999"
                          ELSE EvalNodeContents("i32", data[i])[1]))

\* Variant of StatusArm: a status tag whose content is not an i32 is passed
\* over.
StatusArmSkipsMalformed(data, i, success) ==
    IF EvalNodeContents("i32", data[i]) = None THEN VerifyFrom(data, i + 1, success)
    ELSE Fail(E("Status", EvalNodeContents("i32", data[i])[1]))

\* Arm "status": Error::Status(eval_node_contents(node).unwrap_or(9999)).
StatusArm(data, i, success) ==
    LET code == EvalNodeContents("i32", data[i])
    IN Fail(E("Status", IF code = None THEN "9999" ELSE code[1]))

\* Variant of UnauthorizedArm: the tag is reported as unparsable data.
UnauthorizedArmDataParse(n) == Fail(E("DataParse", "unauthorized"))

\* Arm "unauthorized".
UnauthorizedArm(n) == Fail(E("Auth", ""))

\* Arm "error": classify the text of the tag.
ErrorArm(n) ==
    IF n.text = None THEN Fail(E("Daemon", "Unknown error"))
    ELSE LET error_msg == n.text[1]
         IN CASE error_msg \in {"unauthorized", "Missing authenticator"} ->
                    Fail(E("Auth", error_msg))
              [] error_msg = "Missing URL" -> Fail(E("InvalidURL", error_msg))
              [] error_msg = "Already attached to project" ->
                    Fail(E("AlreadyAttached", error_msg))
              [] OTHER -> Fail(E("DataParse", error_msg))

\* The loop of verify_rpc_reply_contents from node i on.
VerifyFrom(data, i, success) ==
    IF i > Len(data) THEN Ok(success)
    ELSE CASE data[i].name = "success" -> SuccessArm(data, i, success)
           [] data[i].name = "status" -> StatusArm(data, i, success)
           [] data[i].name = "unauthorized" -> UnauthorizedArm(data[i])
           [] data[i].name = "error" -> ErrorArm(data[i])
           [] OTHER -> VerifyFrom(data, i + 1, success)

\* verify_rpc_reply_contents.
VerifyRpcReplyContents(data) == VerifyFrom(data, 1, FALSE)

\* Variant of ObjectNotFound: a reply without the object yields a default
\* record.
ObjectNotFoundDefault(m) == Ok(DefaultRecord(m))

\* The tail of Client::get_object: no child had the object tag.
ObjectNotFound(m) == Fail(E("DataParse", "Object not found."))

\* Variant of GetObject: the object is extracted only if a success tag was seen.
GetObjectIfSuccess(data, object_tag, m) ==
    LET v == VerifyRpcReplyContents(data)
        found == SelectSeq(data, LAMBDA child : child.name = object_tag)
    IN IF v.kind = "Err" THEN v
       ELSE IF found # <<>> /\ v.val THEN Ok(FromElement(m, found[1]))
       ELSE ObjectNotFound(m)

\* Client::get_object after `self.transport.call(req_data).await?`.
GetObject(data, object_tag, m) ==
    LET v == VerifyRpcReplyContents(data)
        found == SelectSeq(data, LAMBDA child : child.name = object_tag)
    IN IF v.kind = "Err" THEN v
       ELSE IF found # <<>> THEN Ok(FromElement(m, found[1]))
       ELSE ObjectNotFound(m)

RECURSIVE VecObjects(_, _, _, _)

\* Variant of VecObjects: only the first matching object of a list is taken.
VecObjectsFirst(ch, i, object_tag, m) ==
    LET found == SelectSeq(ch, LAMBDA c : c.name = object_tag)
    IN IF found = <<>> THEN <<>> ELSE <<FromElement(m, found[1])>>

\* The inner loop of Client::get_vec over one vec_tag child.
VecObjects(ch, i, object_tag, m) ==
    IF i > Len(ch) THEN <<>>
    ELSE IF ch[i].name = object_tag
         THEN <<FromElement(m, ch[i])>> \o VecObjects(ch, i + 1, object_tag, m)
         ELSE VecObjects(ch, i + 1, object_tag, m)

\* The outer loop of Client::get_vec: v and success from child i on.
RECURSIVE VecFrom(_, _, _, _, _, _, _)
VecFrom(data, i, vec_tag, object_tag, m, v, success) ==
    IF i > Len(data) THEN [v |-> v, success |-> success]
    ELSE IF data[i].name = vec_tag
         THEN VecFrom(data, i + 1, vec_tag, object_tag, m,
                      v \o VecObjects(data[i].children, 1, object_tag, m), TRUE)
         ELSE VecFrom(data, i + 1, vec_tag, object_tag, m, v, success)

\* Client::get_vec after `self.transport.call(req_data).await?`.
GetVec(data, vec_tag, object_tag, m) ==
    LET v == VerifyRpcReplyContents(data)
        r == VecFrom(data, 1, vec_tag, object_tag, m, <<>>, FALSE)
    IN IF v.kind = "Err" THEN v
       ELSE IF ~r.success THEN Fail(E("DataParse", "Objects not found."))
       ELSE Ok(r.v)

\* The loops of get_account_manager_rpc_status: v after the children c of
\* one acct_mgr_rpc_reply, from index i on.
RECURSIVE ErrorNumFrom(_, _, _)
ErrorNumFrom(ch, i, v) ==
    IF i > Len(ch) THEN v
    ELSE IF ch[i].name = "error_num"
         THEN ErrorNumFrom(ch, i + 1, EvalNodeContents("i32", ch[i]))
         ELSE ErrorNumFrom(ch, i + 1, v)

RECURSIVE RpcReplyFrom(_, _, _)
RpcReplyFrom(data, i, v) ==
    IF i > Len(data) THEN v
    ELSE IF data[i].name = "acct_mgr_rpc_reply"
         THEN RpcReplyFrom(data, i + 1, ErrorNumFrom(data[i].children, 1, v))
         ELSE RpcReplyFrom(data, i + 1, v)

\* Client::get_account_manager_rpc_status after the call.
GetAccountManagerRpcStatus(data) ==
    LET r == VerifyRpcReplyContents(data)
        v == RpcReplyFrom(data, 1, None)
    IN IF r.kind = "Err" THEN r
       ELSE IF v = None THEN Fail(E("DataParse", "acct_mgr_rpc_reply node not found"))
       ELSE Ok(v[1])

\* Client::connect_to_account_manager after the call.
ConnectToAccountManager(data) == VerifyRpcReplyContents(data)

\* Client::set_mode after the call.
SetMode(data) ==
    LET r == VerifyRpcReplyContents(data)
    IN IF r.kind = "Err" THEN r ELSE Ok(Unit)

\* Variant of SetLanguage: the reply is not validated.
SetLanguageUnchecked(data) == Ok(Unit)

\* Client::set_language after the call.
SetLanguage(data) ==
    LET r == VerifyRpcReplyContents(data)
    IN IF r.kind = "Err" THEN r ELSE Ok(Unit)

\* The public operations of Client.
Operations ==
    {"get_messages", "get_projects", "get_account_manager_info",
     "get_account_manager_rpc_status", "connect_to_account_manager",
     "exchange_versions", "get_results", "set_mode", "get_host_info",
     "set_language"}

\* The operations that extract an object or a list from the reply.
ExtractingOperations ==
    {"get_messages", "get_projects", "get_account_manager_info",
     "get_account_manager_rpc_status", "exchange_versions", "get_results",
     "get_host_info"}

\* The tag each extracting operation looks for among the reply's children.
RequestedTag ==
    ("get_messages" :> "msgs") @@ ("get_projects" :> "projects")
        @@ ("get_account_manager_info" :> "acct_mgr_info")
        @@ ("get_account_manager_rpc_status" :> "acct_mgr_rpc_reply")
        @@ ("exchange_versions" :> "server_version") @@ ("get_results" :> "results")
        @@ ("get_host_info" :> "host_info")

\* What operation o returns for the reply children data.
ClientOperation(o, data) ==
    CASE o = "get_messages" -> GetVec(data, "msgs", "msg", "Message")
      [] o = "get_projects" -> GetVec(data, "projects", "project", "ProjectInfo")
      [] o = "get_account_manager_info" ->
            GetObject(data, "acct_mgr_info", "AccountManagerInfo")
      [] o = "get_account_manager_rpc_status" -> GetAccountManagerRpcStatus(data)
      [] o = "connect_to_account_manager" -> ConnectToAccountManager(data)
      [] o = "exchange_versions" -> GetObject(data, "server_version", "VersionInfo")
      [] o = "get_results" -> GetVec(data, "results", "result", "TaskResult")
      [] o = "set_mode" -> SetMode(data)
      [] o = "get_host_info" -> GetObject(data, "host_info", "HostInfo")
      [] OTHER -> SetLanguage(data)

(***************************************************************************)
(* The daemon side of a session (rpc module and daemon, from the protocol  *)
(* description).                                                           *)
(***************************************************************************)
\* DaemonStream::connect: the handshake runs iff a password is configured;
\* a session exists only if it did not fail.
SessionAuthorized(d) == d.password

\* What a rejected handshake fails with.
HandshakeRejected == E("Auth", "")

\* The control and payload elements replies are built from.
ReplyElements ==
    {Empty("success"), Empty("unauthorized"), Empty("status"), Empty("error"),
     Empty("msgs")}
        \cup {Leaf("status", t) : t \in {"5", "-107", "3000000000", "x"}}
        \cup {Leaf("error", t) :
                t \in {"unauthorized", "Missing authenticator", "Missing URL",
                       "Already attached to project", "no such project"}}
        \cup {El("server_version", None,
                 <<Leaf("major", "7"), Leaf("minor", "16"), Leaf("release", "16")>>),
              El("server_version", None, <<Leaf("major", "8")>>),
              El("results", None,
                 <<El("result", None, <<Leaf("name", " 7 ")>>), Leaf("bogus", "7"),
                   El("result", None, <<Leaf("state", "5")>>)>>),
              El("acct_mgr_rpc_reply", None, <<Leaf("error_num", "0")>>)}

\* Sequences over S of length at most n.
SeqsUpTo(S, n) == UNION {[1..k -> S] : k \in 0..n}

\* The replies a daemon sends on a session: a protected daemon answers an
\* unauthorized session with the unauthorized control tag.
DaemonReplies(d) ==
    IF d.protected /\ ~SessionAuthorized(d)
    THEN {<<Empty("unauthorized")>>}
    ELSE SeqsUpTo(ReplyElements, MaxReplyLen)

\* A reply has arrived from some daemon; no operation has looked at it yet.
InitReply ==
    /\ TransportNew
    /\ daemon \in [protected : BOOLEAN, password : BOOLEAN]
    /\ reply \in DaemonReplies(daemon)
    /\ op = "none"
    /\ result = [kind |-> "none"]
    /\ node = [name |-> "none"]
    /\ dec = "none"
    /\ decoded = [kind |-> "none"]
    /\ EncodeIdle
    /\ FrameIdle

\* A Client operation processes the reply.
Operate ==
    /\ op = "none"
    /\ dec = "none"
    /\ \E o \in Operations :
         /\ op' = o
         /\ result' = ClientOperation(o, reply)
    /\ UNCHANGED <<reply, node, dec, decoded, daemon, record, enc, encoded>>
    /\ UNCHANGED frameVars
    /\ UNCHANGED transportVars

NextReply == Operate

SpecReply == InitReply /\ [][NextReply]_vars

(***************************************************************************)
(* Properties of the reply validator and the Client operations             *)
(***************************************************************************)

\* Index of the first status, unauthorized or error child of a reply, 0 if
\* there is none.
FirstTerminal(data) ==
    IF \E i \in 1..Len(data) : data[i].name \in TerminalTags
    THEN CHOOSE i \in 1..Len(data) :
            /\ data[i].name \in TerminalTags
            /\ \A j \in 1..(i - 1) : data[j].name \notin TerminalTags
    ELSE 0

\* The failure a single terminal tag stands for.
TerminalFailure(data, i) ==
    CASE data[i].name = "status" -> StatusArm(data, i, FALSE)
      [] data[i].name = "unauthorized" -> UnauthorizedArm(data[i])
      [] OTHER -> ErrorArm(data[i])

C12_AnyStatusWins ==
    (op # "none"
        /\ \E i \in 1..Len(reply) :
              reply[i].name = "status" /\ EvalNodeContents("i32", reply[i]) # None)
        => /\ result.kind = "Err"
           /\ result.err.kind = "Status"
           /\ \E i \in 1..Len(reply) :
                 /\ reply[i].name = "status"
                 /\ EvalNodeContents("i32", reply[i]) = Some(result.err.msg)

\* C12 amended: a reply whose first terminal tag in document order is a
\* status element holding a 32-bit integer fails with a Status error carrying
\* that integer, whatever other elements surround it.
C12_FirstStatusWins ==
    \A i \in 1..Len(reply) :
        (op # "none" /\ FirstTerminal(reply) = i /\ reply[i].name = "status"
            /\ EvalNodeContents("i32", reply[i]) # None)
            => result = Fail(E("Status", EvalNodeContents("i32", reply[i])[1]))

\* C12 witness: status -107 follows a success tag and is followed by another
\* terminal tag; the operation failed with Status(-107).
C12_Witness ==
    /\ Len(reply) = 3
    /\ reply[1] = Empty("success")
    /\ reply[2] = Leaf("status", "-107")
    /\ reply[3] = Empty("unauthorized")
    /\ op = "get_results"
    /\ result = Fail(E("Status", "-107"))

\* C13: a reply whose only child is the unauthorized tag makes every Client
\* operation fail with Auth.
C13_UnauthorizedIsAuth ==
    (op # "none" /\ reply = <<Empty("unauthorized")>>)
        => (result.kind = "Err" /\ result.err.kind = "Auth")

\* C13 witness: set_language has processed the reply <unauthorized/> of a
\* daemon that is not password-protected, and failed.
C13_Witness ==
    /\ reply = <<Empty("unauthorized")>>
    /\ ~daemon.protected
    /\ op = "set_language"
    /\ result.kind = "Err"

\* C14: when the validator returns on an error tag, the failure is Auth,
\* InvalidURL, AlreadyAttached or DataParse according to the tag's text, and
\* carries that text.
C14_ErrorTagFourKinds ==
    \A i \in 1..Len(reply) :
        (op # "none" /\ FirstTerminal(reply) = i /\ reply[i].name = "error")
            => /\ result.kind = "Err"
               /\ result.err.kind \in {"Auth", "InvalidURL", "AlreadyAttached", "DataParse"}
               /\ reply[i].text # None
               /\ result.err.msg = reply[i].text[1]
               /\ result.err.kind =
                    (CASE reply[i].text[1] \in {"unauthorized", "Missing authenticator"} -> "Auth"
                       [] reply[i].text[1] = "Missing URL" -> "InvalidURL"
                       [] reply[i].text[1] = "Already attached to project" -> "AlreadyAttached"
                       [] OTHER -> "DataParse")

\* C15: the first terminal tag in document order decides the failure, also
\* when success tags precede it; without a terminal tag the validator
\* returns whether a success tag was seen anywhere.
C15_DocumentOrder ==
    op # "none" =>
        LET i == FirstTerminal(reply)
        IN /\ i # 0 => result = TerminalFailure(reply, i)
           /\ (i = 0 /\ op = "connect_to_account_manager")
                => result = Ok(\E j \in 1..Len(reply) : reply[j].name = "success")

\* C15 witness: success, then an error tag, then a status tag: the error tag
\* decided.
C15_Witness ==
    /\ Len(reply) = 3
    /\ reply[1] = Empty("success")
    /\ reply[2] = Leaf("error", "Missing URL")
    /\ reply[3] = Leaf("status", "5")
    /\ op = "connect_to_account_manager"
    /\ result = Fail(E("InvalidURL", "Missing URL"))

\* C16: an extracting operation whose reply has success, no terminal tag and
\* no child with the requested tag fails with a DataParse "not found" error.
C16_MissingObjectIsNotFound ==
    (op \in ExtractingOperations
        /\ FirstTerminal(reply) = 0
        /\ (\E j \in 1..Len(reply) : reply[j].name = "success")
        /\ (\A j \in 1..Len(reply) : reply[j].name # RequestedTag[op]))
        => /\ result.kind = "Err"
           /\ result.err.kind = "DataParse"
           /\ result.err.msg \in {"Object not found.", "Objects not found.",
                                  "acct_mgr_rpc_reply node not found"}

\* C16 witness: exchange_versions got success and a results list but no
\* server_version, and reported "Object not found.".
C16_Witness ==
    /\ Len(reply) = 2
    /\ reply[1] = Empty("success")
    /\ reply[2].name = "results"
    /\ op = "exchange_versions"
    /\ result = Fail(E("DataParse", "Object not found."))

\* A status element whose content is missing or is not an integer literal.
MalformedStatus(n) ==
    /\ n.name = "status"
    /\ (n.text = None \/ n.text[1] \notin DOMAIN IntCanon)

\* C29: when the scan reaches a status tag whose content is missing or not
\* an integer (it is the first terminal tag), the operation fails with
\* Status(9999); and no reply containing such a tag is reported as success.
C29_MalformedStatusIsSentinel ==
    op # "none"
        => /\ (FirstTerminal(reply) # 0 /\ MalformedStatus(reply[FirstTerminal(reply)]))
                 => result = Fail(E("Status", "9999"))
           /\ (\E i \in 1..Len(reply) : MalformedStatus(reply[i]))
                 => result.kind = "Err"

\* C29 witness: set_mode got success followed by a status tag without
\* content, or with the content "x", and failed with Status(9999).
C29_Witness ==
    /\ op = "set_mode"
    /\ Len(reply) = 2
    /\ reply[1] = Empty("success")
    /\ reply[2] \in {Empty("status"), Leaf("status", "x")}
    /\ result = Fail(E("Status", "9999"))

\* C30: when the scan reaches an error tag without text content, the
\* operation fails, and with one of the kinds Auth, InvalidURL,
\* AlreadyAttached, DataParse.
C30_TextlessErrorInTaxonomy ==
    (op # "none"
        /\ FirstTerminal(reply) # 0
        /\ reply[FirstTerminal(reply)].name = "error"
        /\ reply[FirstTerminal(reply)].text = None)
        => /\ result.kind = "Err"
           /\ result.err.kind \in {"Auth", "InvalidURL", "AlreadyAttached", "DataParse"}

\* The operations served by Client::get_vec, with the object tag and the
\* record each of them asks for.
ListOperations == {"get_messages", "get_projects", "get_results"}

ObjectTag ==
    ("get_messages" :> "msg") @@ ("get_projects" :> "project")
        @@ ("get_results" :> "result")

ListRecord ==
    ("get_messages" :> "Message") @@ ("get_projects" :> "ProjectInfo")
        @@ ("get_results" :> "TaskResult")

\* The object_tag children of the vec_tag children of data, in document order.
RECURSIVE ObjectsUnder(_, _, _)
ObjectsUnder(data, vec_tag, object_tag) ==
    IF data = <<>> THEN <<>>
    ELSE LET last == data[Len(data)]
         IN ObjectsUnder(SubSeq(data, 1, Len(data) - 1), vec_tag, object_tag)
                \o (IF last.name = vec_tag
                    THEN SelectSeq(last.children, LAMBDA c : c.name = object_tag)
                    ELSE <<>>)

\* C27: a list operation whose reply has no terminal tag returns the
\* decodings, in document order, of every object_tag child of every vec_tag
\* child (the empty list if there are vec_tag children but no objects), and
\* fails with DataParse "Objects not found." if there is no vec_tag child.
C27_ListIsEveryObjectInOrder ==
    (op \in ListOperations /\ FirstTerminal(reply) = 0)
        => LET objs == ObjectsUnder(reply, RequestedTag[op], ObjectTag[op])
           IN IF \E i \in 1..Len(reply) : reply[i].name = RequestedTag[op]
              THEN result = Ok([k \in 1..Len(objs) |->
                                   FromElement(ListRecord[op], objs[k])])
              ELSE result = Fail(E("DataParse", "Objects not found."))

\* C27 witness: get_results collected, in order, the four result objects of
\* two results lists that stand around an empty msgs list.
C27_Witness ==
    /\ op = "get_results"
    /\ Len(reply) = 3
    /\ reply[1].name = "results" /\ reply[2] = Empty("msgs")
    /\ reply[3].name = "results"
    /\ result.kind = "Ok" /\ Len(result.val) = 4
    /\ result.val[1].name = Some("7") /\ result.val[2].state = Some("5")
    /\ result.val[3].name = Some("7") /\ result.val[4].state = Some("5")

\* The operations served by Client::get_object, with the record each decodes.
ObjectRecord ==
    ("get_account_manager_info" :> "AccountManagerInfo")
        @@ ("exchange_versions" :> "VersionInfo") @@ ("get_host_info" :> "HostInfo")

\* C33: for a reply without terminal tag, with or without a success tag:
\* get_object returns the decoding of the first child with the object tag
\* (and "Object not found." without one), set_mode and set_language return
\* Ok(()), connect_to_account_manager returns Ok(true) iff there is a success
\* tag, and no other operation's result changes when the success tags are
\* taken out of the reply.
C33_ExtractionIgnoresSuccessFlag ==
    (op # "none" /\ FirstTerminal(reply) = 0)
        => LET seen == \E i \in 1..Len(reply) : reply[i].name = "success"
               rest == SelectSeq(reply, LAMBDA n : n.name # "success")
               objs == SelectSeq(reply, LAMBDA n :
                          op \in DOMAIN ObjectRecord /\ n.name = RequestedTag[op])
           IN /\ op \in DOMAIN ObjectRecord
                   => result = IF objs = <<>>
                               THEN Fail(E("DataParse", "Object not found."))
                               ELSE Ok(FromElement(ObjectRecord[op], objs[1]))
              /\ op \in {"set_mode", "set_language"} => result = Ok(Unit)
              /\ op = "connect_to_account_manager" => result = Ok(seen)
              /\ op # "connect_to_account_manager"
                   => result = ClientOperation(op, rest)

\* C33 witness: exchange_versions on a reply of two server_version elements
\* and no success tag returned the decoding of the first.
C33_Witness ==
    /\ op = "exchange_versions"
    /\ Len(reply) = 2
    /\ reply[1] = El("server_version", None, <<Leaf("major", "8")>>)
    /\ reply[2].name = "server_version" /\ reply[2] # reply[1]
    /\ result = Ok([major |-> Some("8"), minor |-> None, release |-> None])

(***************************************************************************)
(* Decoding: an element arrives as the payload of a successful reply and   *)
(* is decoded, by a Client operation or by a decoder called directly.      *)
(***************************************************************************)
\* The record decoders: the records of models.rs and ExchangeVersions.
Decoders == Models \cup {"ExchangeVersions"}

\* The decoder d applied to the element n.
DecodeWith(d, n) ==
    IF d = "ExchangeVersions" THEN ExchangeVersionsFrom(n) ELSE FromElement(d, n)

\* The child tags the decoder d reads.
KnownTags(d) ==
    IF d = "ExchangeVersions" THEN {"major", "minor", "release", "name"}
    ELSE DOMAIN ArmsOf(d)

\* The field the decoder d fills from the child tag t, and how.
ArmOf(d, t) ==
    IF d = "ExchangeVersions"
    THEN Arm(t, IF t = "name" THEN "String" ELSE "i64")
    ELSE ArmsOf(d)[t]

\* The children the decoded elements are built from.
DecodeElements ==
    {Empty("major"), Leaf("major", "7"), Leaf("major", "8"), Leaf("major", "x"),
     Leaf("major", "+7"), Leaf("minor", "16"), Leaf("minor", "x"),
     Leaf("release", "16"), Leaf("name", " 7 "), Leaf("bogus", "7"),
     Leaf("version_num", "7"), Leaf("slot", "8"), Empty("active_task"),
     Leaf("serialnum", "7"), Leaf("tz_shift", "7"),
     El("platforms", None, <<Leaf("platform", " 7 "), Leaf("bogus", "7")>>),
     El("active_task", None, <<Leaf("slot", "7"), Leaf("version_num", "8")>>)}

\* A successful reply carrying one server_version element has arrived.
InitDecode ==
    /\ TransportNew
    /\ daemon = [protected |-> FALSE, password |-> FALSE]
    /\ node \in {El("server_version", None, ch) :
                    ch \in SeqsUpTo(DecodeElements, MaxChildren)}
    /\ reply = <<Empty("success"), node>>
    /\ op = "none"
    /\ result = [kind |-> "none"]
    /\ dec = "none"
    /\ decoded = [kind |-> "none"]
    /\ EncodeIdle
    /\ FrameIdle

\* A decoder is applied to the element.
Decode ==
    /\ op = "none"
    /\ dec = "none"
    /\ \E d \in Decoders :
         /\ dec' = d
         /\ decoded' = DecodeWith(d, node)
    /\ UNCHANGED <<reply, op, result, node, daemon, record, enc, encoded>>
    /\ UNCHANGED frameVars
    /\ UNCHANGED transportVars

NextDecode == Operate \/ Decode

SpecDecode == InitDecode /\ [][NextDecode]_vars

(***************************************************************************)
(* Properties of the decoders                                              *)
(***************************************************************************)

\* The sequence s without its element i.
Without(s, i) == SubSeq(s, 1, i - 1) \o SubSeq(s, i + 1, Len(s))

\* Index of the last child of n called t, 0 if there is none.
LastNamed(n, t) ==
    IF \E i \in 1..Len(n.children) : n.children[i].name = t
    THEN CHOOSE i \in 1..Len(n.children) :
            /\ n.children[i].name = t
            /\ \A j \in (i + 1)..Len(n.children) : n.children[j].name # t
    ELSE 0

\* The value the decoder d gives the child c of tag t, taken alone.
ValueOf(d, t, c) ==
    IF d = "ExchangeVersions"
    THEN IF c.text = None THEN None ELSE ParseAs(ArmOf(d, t).conv, c.text[1])
    ELSE ArmValue(ArmOf(d, t).conv, c)

\* The child c yields no value for the field its tag fills in decoder d: its
\* text does not parse as the field's type, or the text read is absent.
Unparsed(d, c) ==
    LET conv == ArmOf(d, c.name).conv
    IN CASE conv \in {"i64", "u64", "f64", "bool"} ->
                c.text = None \/ ParseAs(conv, c.text[1]) = None
         [] conv \in {"text", "trim_text", "String"} -> c.text = None
         [] conv = "trim_cdata" -> c.cdata = None
         [] conv = "trim_any" -> c.text = None /\ c.cdata = None
         [] OTHER -> FALSE

\* C17: exchange_versions on a reply [success, server_version] returns a
\* record whose major, minor and release are the integers written in the
\* same-named child of server_version (when there is one such child and it
\* holds an integer).
C17_ServerVersionDecoded ==
    op = "exchange_versions" =>
        /\ result.kind = "Ok"
        /\ \A i \in 1..Len(node.children) :
             LET c == node.children[i]
             IN (/\ c.name \in {"major", "minor", "release"}
                 /\ \A j \in 1..Len(node.children) :
                        node.children[j].name = c.name => j = i
                 /\ c.text # None
                 /\ c.text[1] \in DOMAIN IntCanon)
                    => result.val[c.name] = Some(IntCanon[c.text[1]])

\* C17 witness: the reply of the scenario decoded to {7, 16, 16}.
C17_Witness ==
    /\ op = "exchange_versions"
    /\ node.children = <<Leaf("major", "7"), Leaf("minor", "16"), Leaf("release", "16")>>
    /\ reply = <<Empty("success"), node>>
    /\ result = Ok([major |-> Some("7"), minor |-> Some("16"), release |-> Some("16")])

\* C18: for every tag a decoder reads, the field holds the value of the last
\* child with that tag, in parse_node (ExchangeVersions) and in the
\* From<&Element> decoders alike.
C18_LastOccurrenceWins ==
    dec # "none" =>
        \A t \in KnownTags(dec) :
            LET i == LastNamed(node, t)
            IN i # 0 => decoded[ArmOf(dec, t).field] = ValueOf(dec, t, node.children[i])

\* C18 witness: two major tags, 7 then 8, decoded by ExchangeVersions to 8.
C18_Witness ==
    /\ dec = "ExchangeVersions"
    /\ node.children = <<Leaf("major", "7"), Leaf("major", "8")>>
    /\ decoded.major = Some("8")

\* C19: decoding always yields a record of optional fields; a field whose
\* tag is missing, or whose last element does not parse, is None; and an
\* element that does not parse changes no other field.
C19_DecodingIsTotal ==
    dec # "none" =>
        /\ \A f \in DOMAIN decoded : decoded[f] = None \/ Len(decoded[f]) = 1
        /\ \A f \in DOMAIN decoded :
             (\A t \in KnownTags(dec) :
                 ArmOf(dec, t).field = f => LastNamed(node, t) = 0)
                => decoded[f] = None
        /\ \A i \in 1..Len(node.children) :
             LET c == node.children[i]
             IN (c.name \in KnownTags(dec) /\ Unparsed(dec, c))
                  => /\ LastNamed(node, c.name) = i
                        => decoded[ArmOf(dec, c.name).field] = None
                     /\ \A g \in DOMAIN decoded \ {ArmOf(dec, c.name).field} :
                          decoded[g] =
                            DecodeWith(dec, [node EXCEPT !.children = Without(@, i)])[g]

\* C19 witness: major does not parse, minor does: major is None, minor 16.
C19_Witness ==
    /\ dec = "VersionInfo"
    /\ node.children = <<Leaf("major", "x"), Leaf("minor", "16")>>
    /\ decoded = [major |-> None, minor |-> Some("16"), release |-> None]

\* C20: children whose tag the decoder does not read leave the decoded
\* record unchanged: it equals the decoding of the element without them.
C20_UnknownTagsIgnored ==
    dec # "none" =>
        decoded =
            DecodeWith(dec, [node EXCEPT !.children =
                                SelectSeq(@, LAMBDA c : c.name \in KnownTags(dec))])

\* C20 witness: TaskResult decoded version_num between two tags it does not
\* know.
C20_Witness ==
    /\ dec = "TaskResult"
    /\ Len(node.children) = 3
    /\ node.children[1].name = "bogus"
    /\ node.children[2] = Leaf("version_num", "7")
    /\ node.children[3].name = "major"
    /\ decoded.version_num = Some("7")

\* C31: when the last child with a tag the decoder reads does not parse, the
\* field is None although an earlier child with that tag parsed: there is no
\* fallback to an earlier sibling.
C31_NoFallbackToEarlierSibling ==
    dec # "none" =>
        \A i, j \in 1..Len(node.children) :
            (/\ i < j
             /\ node.children[i].name = node.children[j].name
             /\ node.children[j].name \in KnownTags(dec)
             /\ j = LastNamed(node, node.children[j].name)
             /\ ~Unparsed(dec, node.children[i])
             /\ Unparsed(dec, node.children[j]))
                => decoded[ArmOf(dec, node.children[j].name).field] = None

\* C31 witness: major 7 followed by major x decodes to major absent, in the
\* VersionInfo decoder.
C31_Witness ==
    /\ dec = "VersionInfo"
    /\ node.children = <<Leaf("major", "7"), Leaf("major", "x")>>
    /\ decoded.major = None

\* The field f of the record decoder d is assigned by some match arm.
HasArm(d, f) == \E t \in KnownTags(d) : ArmOf(d, t).field = f

\* C32: every field of every record has a match arm that fills it; a
\* platforms child makes ProjectInfo.platforms present, listing the texts of
\* its platform children in order; a serialnum child with text and a tz_shift
\* child holding an integer make HostInfo.serialnum and HostInfo.tz_shift
\* present.
C32_EveryFieldReachable ==
    dec \in Models =>
        /\ \A f \in FieldsOf(dec) : HasArm(dec, f)
        /\ (dec = "ProjectInfo" /\ LastNamed(node, "platforms") # 0)
              => decoded.platforms =
                    Some(PlatformTexts(
                            node.children[LastNamed(node, "platforms")].children, 1))
        /\ (dec = "HostInfo" /\ LastNamed(node, "serialnum") # 0
                /\ node.children[LastNamed(node, "serialnum")].text # None)
              => decoded.serialnum = node.children[LastNamed(node, "serialnum")].text
        /\ (dec = "HostInfo" /\ LastNamed(node, "tz_shift") # 0
                /\ node.children[LastNamed(node, "tz_shift")].text # None
                /\ node.children[LastNamed(node, "tz_shift")].text[1] \in DOMAIN IntCanon)
              => decoded.tz_shift # None

\* C26: the TaskResult decoder sets active_task iff the element has an
\* active_task child; the value is the ActiveTask decoding of the last such
\* child; a tag inside that child fills no field of the TaskResult, and a tag
\* beside it fills no field of the ActiveTask.
C26_ActiveTaskNested ==
    dec = "TaskResult" =>
        LET i == LastNamed(node, "active_task")
        IN /\ (decoded.active_task # None) <=> (i # 0)
           /\ i # 0 =>
                 /\ decoded.active_task = Some(FromElement("ActiveTask", node.children[i]))
                 /\ \A t \in DOMAIN ActiveTaskArms :
                       LastNamed(node.children[i], t) = 0
                          => decoded.active_task[1][ActiveTaskArms[t].field] = None
           /\ \A t \in DOMAIN TaskResultArms :
                 LastNamed(node, t) = 0 => decoded[TaskResultArms[t].field] = None

\* C26 witness: an empty active_task, a slot beside it and a second
\* active_task holding slot 7 and version_num 8: active_task is the decoding
\* of the second, with slot 7, and the TaskResult has no version_num.
C26_Witness ==
    /\ dec = "TaskResult"
    /\ node.children =
          <<Empty("active_task"), Leaf("slot", "8"),
            El("active_task", None, <<Leaf("slot", "7"), Leaf("version_num", "8")>>)>>
    /\ decoded.active_task # None
    /\ decoded.active_task[1].slot = Some("7")
    /\ decoded.version_num = None

(***************************************************************************)
(* Part 4: encoders and request builders (src/src/messages/helpers.rs,     *)
(* src/src/messages/exchange_versions.rs, src/src/messages/host_info.rs,   *)
(* Client::exchange_versions in src/src/lib.rs).                           *)
(***************************************************************************)
\* Bound: how many fields of a HostInfo record are present.
MaxPresent == 2

\* Display of an f64 value: the shortest decimal text, without ".0".
FloatDisplay ==
    ("0.0" :> "0") @@ ("5.0" :> "5") @@ ("7.0" :> "7") @@ ("8.0" :> "8")
        @@ ("16.0" :> "16") @@ ("-107.0" :> "-107")
        @@ ("3000000000.0" :> "3000000000") @@ ("1.5" :> "1.5")

\* The serde names of messages::host_info::DockerType.
DockerTypeNames == ("Docker" :> "docker") @@ ("Podman" :> "podman")

\* format!("{v}") and the serde text of a value of type ty.  An integer value
\* is held as its decimal text, which is what Display prints.
FormatDisplay(ty, v) ==
    CASE ty = "f64" -> FloatDisplay[v]
      [] ty = "DockerType" -> DockerTypeNames[v]
      [] OTHER -> v

\* helpers::add_element: a present value adds one child holding its text.
AddElement(parent, name, ty, value) ==
    IF value = None THEN parent
    ELSE [parent EXCEPT !.children =
             Append(@, Leaf(name, FormatDisplay(ty, value[1])))]

\* impl From<&ExchangeVersions> for treexml::Element.
ExchangeVersionsToElement(e) ==
    LET n0 == Empty("exchange_versions")
        n1 == AddElement(n0, "major", "i64", e.major)
        n2 == AddElement(n1, "minor", "i64", e.minor)
        n3 == AddElement(n2, "release", "i64", e.release)
    IN AddElement(n3, "name", "String", e.name)

\* node.text = v.map(|v| format!("{v}")) on Element::new(name).
RequestChild(name, v) ==
    El(name, IF v = None THEN None ELSE Some(FormatDisplay("i64", v[1])), <<>>)

\* The content_node Client::exchange_versions sends: the major child is made
\* from info.minor, the minor child from info.major.
ExchangeVersionsRequest(info) ==
    El("exchange_versions", None,
       <<RequestChild("major", info.minor), RequestChild("minor", info.major),
         RequestChild("release", info.release)>>)

\* messages::host_info::HostInfo: the fields in declaration order, with
\* their types.
MsgHostInfoFields ==
    <<<<"tz_shift", "i32">>, <<"domain_name", "String">>, <<"serialnum", "String">>,
      <<"ip_addr", "String">>, <<"host_cpid", "String">>, <<"p_ncpus", "i32">>,
      <<"p_vendor", "String">>, <<"p_model", "String">>, <<"p_features", "String">>,
      <<"p_fpops", "f64">>, <<"p_iops", "f64">>, <<"p_membw", "f64">>,
      <<"p_calculated", "f64">>, <<"p_vm_extensions_disabled", "bool">>,
      <<"m_nbytes", "f64">>, <<"m_cache", "f64">>, <<"m_swap", "f64">>,
      <<"d_total", "f64">>, <<"d_free", "f64">>, <<"os_name", "String">>,
      <<"os_version", "String">>, <<"docker_version", "String">>,
      <<"docker_type", "DockerType">>, <<"docker_compose_version", "String">>,
      <<"docker_compose_type", "DockerType">>, <<"product_name", "String">>,
      <<"mac_address", "String">>, <<"virtualbox_version", "String">>,
      <<"num_opencl_cpu_platforms", "i32">>>>

MsgHostInfoNames == {MsgHostInfoFields[k][1] : k \in 1..Len(MsgHostInfoFields)}

\* The derived Default of HostInfo: every field None.
MsgHostInfoDefault == [f \in MsgHostInfoNames |-> None]

\* The serialized element of one field: an absent value, and an empty
\* string, are written as the empty element <field/>.
SerializeField(name, ty, value) ==
    IF value = None \/ value = Some("") THEN Empty(name)
    ELSE Leaf(name, FormatDisplay(ty, value[1]))

\* quick_xml::se::to_string(&host_info), as its document tree.
HostInfoSerialize(h) ==
    El("host_info", None,
       [k \in 1..Len(MsgHostInfoFields) |->
           SerializeField(MsgHostInfoFields[k][1], MsgHostInfoFields[k][2],
                          h[MsgHostInfoFields[k][1]])])

\* What deserializing an empty element into a field that is not a string
\* can do: leave the field None, or fail the whole document.
EmptyElementOutcomes == {"None", "Err"}

\* The failed deserialization.
DeError == [kind |-> "DeError"]

\* The value of the field of type ty read from its element c; "Err" if the
\* element cannot be read as that type.
DeserializeField(ty, c, empty) ==
    IF c.text = None
    THEN IF ty = "String" THEN Some("")
         ELSE IF empty = "None" THEN None ELSE "Err"
    ELSE CASE ty = "String" -> c.text
           [] ty = "DockerType" ->
                IF \E d \in DOMAIN DockerTypeNames : DockerTypeNames[d] = c.text[1]
                THEN Some(CHOOSE d \in DOMAIN DockerTypeNames :
                             DockerTypeNames[d] = c.text[1])
                ELSE "Err"
           [] OTHER -> IF ParseAs(ty, c.text[1]) = None THEN "Err"
                       ELSE ParseAs(ty, c.text[1])

\* quick_xml::de::from_str::<HostInfo> on a document holding each field at
\* most once.
HostInfoDeserialize(n, empty) ==
    LET field(k) ==
            LET i == LastNamed(n, MsgHostInfoFields[k][1])
            IN IF i = 0 THEN None
               ELSE DeserializeField(MsgHostInfoFields[k][2], n.children[i], empty)
        byName(f) == CHOOSE k \in 1..Len(MsgHostInfoFields) : MsgHostInfoFields[k][1] = f
    IN IF \E k \in 1..Len(MsgHostInfoFields) : field(k) = "Err" THEN DeError
       ELSE [f \in MsgHostInfoNames |-> field(byName(f))]

\* The values the present fields of the encoded records take.
PresentInts == {"7", "16"}
PresentNames == {"", " 7 "}

FieldValues(ty) ==
    CASE ty = "i32" -> {"7"}
      [] ty = "f64" -> {"1.5"}
      [] ty = "bool" -> {"true"}
      [] ty = "DockerType" -> {"Podman"}
      [] OTHER -> {"", "a"}

\* One field of a HostInfo set to a value of its type.
FieldSettings ==
    UNION {{<<MsgHostInfoFields[k][1], v>> : v \in FieldValues(MsgHostInfoFields[k][2])} :
              k \in 1..Len(MsgHostInfoFields)}

\* HostInfo { f1: Some(v1), .., ..Default::default() }.
RECURSIVE HostInfoWith(_, _)
HostInfoWith(settings, i) ==
    IF i > Len(settings) THEN MsgHostInfoDefault
    ELSE [HostInfoWith(settings, i + 1) EXCEPT ![settings[i][1]] = Some(settings[i][2])]

\* Option<T> over a set of values.
Opt(S) == {None} \cup {Some(v) : v \in S}

\* The records handed to the encoders.
EncodeRecords ==
    {[kind |-> "ExchangeVersions", val |-> r] :
        r \in [major : Opt(PresentInts), minor : Opt(PresentInts),
               release : Opt(PresentInts), name : Opt(PresentNames)]}
      \cup {[kind |-> "VersionInfo", val |-> r] :
              r \in [major : Opt(PresentInts), minor : Opt(PresentInts),
                     release : Opt(PresentInts)]}
      \cup {[kind |-> "HostInfo", val |-> HostInfoWith(st, 1)] :
              st \in SeqsUpTo(FieldSettings, MaxPresent)}

\* The exchange_versions elements handed to the decoder to be encoded again.
EncodeTrees ==
    {El("exchange_versions", None, ch) : ch \in SeqsUpTo(DecodeElements, MaxChildren)}

\* A caller holds a record to encode, or an element to decode and encode
\* again.
InitEncode ==
    /\ TransportNew
    /\ daemon = [protected |-> FALSE, password |-> FALSE]
    /\ reply = <<>>
    /\ op = "none"
    /\ result = [kind |-> "none"]
    /\ dec = "none"
    /\ decoded = [kind |-> "none"]
    /\ enc = "none"
    /\ encoded = [name |-> "none"]
    /\ FrameIdle
    /\ \/ record \in EncodeRecords /\ node = [name |-> "none"]
       \/ record = [kind |-> "none"] /\ node \in EncodeTrees

\* treexml::Element::from(&exchange_versions).
EncodeExchangeVersions ==
    /\ record.kind = "ExchangeVersions"
    /\ enc = "none"
    /\ enc' = "ExchangeVersions"
    /\ encoded' = ExchangeVersionsToElement(record.val)
    /\ UNCHANGED <<reply, op, result, node, dec, decoded, daemon, record>>
    /\ UNCHANGED frameVars
    /\ UNCHANGED transportVars

\* Client::exchange_versions builds its request from info.
BuildExchangeVersionsRequest ==
    /\ record.kind = "VersionInfo"
    /\ enc = "none"
    /\ enc' = "exchange_versions"
    /\ encoded' = ExchangeVersionsRequest(record.val)
    /\ UNCHANGED <<reply, op, result, node, dec, decoded, daemon, record>>
    /\ UNCHANGED frameVars
    /\ UNCHANGED transportVars

\* quick_xml::se::to_string(&host_info), or format!("{host_info}").
SerializeHostInfo ==
    /\ record.kind = "HostInfo"
    /\ enc = "none"
    /\ enc' = "HostInfo"
    /\ encoded' = HostInfoSerialize(record.val)
    /\ UNCHANGED <<reply, op, result, node, dec, decoded, daemon, record>>
    /\ UNCHANGED frameVars
    /\ UNCHANGED transportVars

\* The encoded element is decoded by the decoder of the same message.
DecodeEncoded ==
    /\ record.kind # "none"
    /\ enc \in {"ExchangeVersions", "HostInfo"}
    /\ dec = "none"
    /\ dec' = enc
    /\ IF enc = "ExchangeVersions"
       THEN decoded' = ExchangeVersionsFrom(encoded)
       ELSE \E empty \in EmptyElementOutcomes :
               decoded' = HostInfoDeserialize(encoded, empty)
    /\ UNCHANGED <<reply, op, result, node, daemon, record, enc, encoded>>
    /\ UNCHANGED frameVars
    /\ UNCHANGED transportVars

\* ExchangeVersions::from(&node).
DecodeTree ==
    /\ node.name # "none"
    /\ dec = "none"
    /\ dec' = "ExchangeVersions"
    /\ decoded' = ExchangeVersionsFrom(node)
    /\ UNCHANGED <<reply, op, result, node, daemon, record, enc, encoded>>
    /\ UNCHANGED frameVars
    /\ UNCHANGED transportVars

\* treexml::Element::from(&e) on the record decoded from node.
Reencode ==
    /\ node.name # "none"
    /\ dec = "ExchangeVersions"
    /\ enc = "none"
    /\ enc' = "ExchangeVersions"
    /\ encoded' = ExchangeVersionsToElement(decoded)
    /\ UNCHANGED <<reply, op, result, node, dec, decoded, daemon, record>>
    /\ UNCHANGED frameVars
    /\ UNCHANGED transportVars

NextEncode ==
    \/ EncodeExchangeVersions
    \/ BuildExchangeVersionsRequest
    \/ SerializeHostInfo
    \/ DecodeEncoded
    \/ DecodeTree
    \/ Reencode

SpecEncode == InitEncode /\ [][NextEncode]_vars

(***************************************************************************)
(* Properties of the encoders                                              *)
(***************************************************************************)

\* The fields each kind of record is encoded from, in encoding order, with
\* their types.
ExchangeVersionsFields ==
    <<<<"major", "i64">>, <<"minor", "i64">>, <<"release", "i64">>,
      <<"name", "String">>>>

EncodedFields(kind) ==
    CASE kind = "ExchangeVersions" -> ExchangeVersionsFields
      [] kind = "VersionInfo" -> SubSeq(ExchangeVersionsFields, 1, 3)
      [] OTHER -> MsgHostInfoFields

\* C21: every encoding (ExchangeVersions to element, the exchange_versions
\* request, HostInfo serialization) has exactly one child per present field
\* of the record, in field order, holding the value's text, and no child
\* for an absent field.
C21_OneChildPerPresentField ==
    (record.kind # "none" /\ enc # "none")
        => LET present == SelectSeq(EncodedFields(record.kind),
                                    LAMBDA f : record.val[f[1]] # None)
           IN encoded.children =
                 [k \in 1..Len(present) |->
                     Leaf(present[k][1],
                          FormatDisplay(present[k][2], record.val[present[k][1]][1]))]

\* The child c of the decoded element n is the only one of its name, is read
\* by the ExchangeVersions decoder and parses as its field's type.
KnownParseableSingular(n, c) ==
    /\ c.name \in KnownTags("ExchangeVersions")
    /\ Len(FilterChildren(n, c.name)) = 1
    /\ c.text # None
    /\ ParseAs(ArmOf("ExchangeVersions", c.name).conv, c.text[1]) # None

\* The known, parseable, singular children of n, in field order.
RestrictedTo(n) ==
    LET pick(k) == SelectSeq(n.children,
                             LAMBDA c : /\ c.name = ExchangeVersionsFields[k][1]
                                        /\ KnownParseableSingular(n, c))
    IN pick(1) \o pick(2) \o pick(3) \o pick(4)

\* C22: decoding the encoding of a record gives the record back, and
\* encoding the decoding of an element gives the element restricted to its
\* known, parseable, singular fields in field order.
C22_RoundTrip ==
    /\ (record.kind # "none" /\ enc # "none" /\ dec # "none")
          => decoded = record.val
    /\ (node.name # "none" /\ dec # "none" /\ enc # "none")
          => encoded.children = RestrictedTo(node)

\* C28: in the request built by Client::exchange_versions from info, the
\* major, minor and release children hold the text of info.major, info.minor
\* and info.release.
C28_RequestCarriesRecord ==
    enc = "exchange_versions"
        => \A f \in {"major", "minor", "release"} :
              record.val[f] # None
                 => /\ LastNamed(encoded, f) # 0
                    /\ encoded.children[LastNamed(encoded, f)].text
                          = Some(FormatDisplay("i64", record.val[f][1]))

(***************************************************************************)
(* Part 5: the frame decoder of the rpc module, from the protocol          *)
(* description: bytes are read until the delimiter is seen, across any     *)
(* number of reads, and everything before it is parsed as one tree.        *)
(***************************************************************************)
\* The frame delimiter, the byte 0x03.
Delimiter == "ETX"

\* The bytes of <reply/>
ReplyBytesEmpty ==
    <<"<", "r", "e", "p", "l", "y", "/", ">">>

\* The bytes of <reply><success/></reply>
ReplyBytesSuccess ==
    <<"<", "r", "e", "p", "l", "y", ">", "<", "s", "u", "c", "c", "e", "s",
      "s", "/", ">", "<", "/", "r", "e", "p", "l", "y", ">">>

\* The bytes of <reply><unauthorized/></reply>
ReplyBytesUnauthorized ==
    <<"<", "r", "e", "p", "l", "y", ">", "<", "u", "n", "a", "u", "t", "h",
      "o", "r", "i", "z", "e", "d", "/", ">", "<", "/", "r", "e", "p", "l",
      "y", ">">>

\* The bytes of <reply>
ReplyBytesOpen ==
    <<"<", "r", "e", "p", "l", "y", ">">>

\* The tree each well-formed document parses to.
ParseTable ==
    (ReplyBytesEmpty :> El("reply", None, <<>>))
        @@ (ReplyBytesSuccess :> El("reply", None, <<Empty("success")>>))
        @@ (ReplyBytesUnauthorized :> El("reply", None, <<Empty("unauthorized")>>))

\* Parsing a document: malformed bytes fail as DataParse.
ParseTree(bytes) ==
    IF bytes \in DOMAIN ParseTable THEN Ok(ParseTable[bytes])
    ELSE Fail(E("DataParse", "malformed"))

\* Position of the first delimiter in b, 0 if there is none.
DelimiterAt(b) ==
    IF \E i \in 1..Len(b) : b[i] = Delimiter
    THEN CHOOSE i \in 1..Len(b) :
            b[i] = Delimiter /\ \A j \in 1..(i - 1) : b[j] # Delimiter
    ELSE 0

\* Variant of Buffered: the buffer keeps only the bytes of the last read.
BufferedLastRead(b, c) == c

\* The receive buffer after a read of the bytes c.
Buffered(b, c) == b \o c

\* The frame in a buffer that holds a delimiter: the tree before it, and the
\* children of the envelope, which are what the validator is handed.
DecodeFrame(b) ==
    LET t == ParseTree(SubSeq(b, 1, DelimiterAt(b) - 1))
    IN IF t.kind = "Err" THEN t
       ELSE Ok([tree |-> t.val, children |-> t.val.children])

\* End-of-stream before a delimiter.
ConnectionClosed == Fail(E("Network", "connection closed"))

\* What the daemon writes for one reply: a document and the delimiter, or a
\* document cut off by the end of the stream.
ReplyStreams ==
    {d \o <<Delimiter>> :
        d \in {ReplyBytesEmpty, ReplyBytesSuccess, ReplyBytesUnauthorized,
               ReplyBytesOpen}}
      \cup {ReplyBytesSuccess}

\* A query has been written; the reply is on its way.
InitFrame ==
    /\ TransportNew
    /\ daemon = [protected |-> FALSE, password |-> FALSE]
    /\ reply = <<>>
    /\ op = "none"
    /\ result = [kind |-> "none"]
    /\ node = [name |-> "none"]
    /\ dec = "none"
    /\ decoded = [kind |-> "none"]
    /\ EncodeIdle
    /\ stream \in ReplyStreams
    /\ delivered = 0
    /\ chunk = <<>>
    /\ buf = <<>>
    /\ frame = [kind |-> "none"]

\* One read delivers the next k bytes; the decoder returns once the buffer
\* holds the delimiter.
Read ==
    /\ frame.kind = "none"
    /\ delivered < Len(stream)
    /\ \E k \in 1..(Len(stream) - delivered) :
         /\ chunk' = SubSeq(stream, delivered + 1, delivered + k)
         /\ delivered' = delivered + k
    /\ buf' = Buffered(buf, chunk')
    /\ frame' = IF DelimiterAt(buf') # 0 THEN DecodeFrame(buf') ELSE frame
    /\ UNCHANGED <<reply, op, result, node, dec, decoded, daemon, record, enc,
                   encoded, stream>>
    /\ UNCHANGED transportVars

\* A read returns end-of-stream before any delimiter was seen.
ReadEof ==
    /\ frame.kind = "none"
    /\ delivered = Len(stream)
    /\ chunk' = <<>>
    /\ frame' = ConnectionClosed
    /\ UNCHANGED <<reply, op, result, node, dec, decoded, daemon, record, enc,
                   encoded, stream, delivered, buf>>
    /\ UNCHANGED transportVars

NextFrame == Read \/ ReadEof

SpecFrame == InitFrame /\ [][NextFrame]_vars

\* The frame decoded from the whole stream delivered by a single read.
WholeDecode(st) ==
    IF DelimiterAt(st) # 0 THEN DecodeFrame(st) ELSE ConnectionClosed

\* C23: however the bytes of a reply are split across reads, the decoder
\* returns what it returns when one read delivers them all: the same tree
\* and the same children for the validator (or the same failure).
C23_ChunkInvariant ==
    frame.kind # "none" => frame = WholeDecode(stream)

\* C23 witness: the success reply was decoded after a read that delivered
\* the delimiter byte alone.
C23_Witness ==
    /\ stream = ReplyBytesSuccess \o <<Delimiter>>
    /\ chunk = <<Delimiter>>
    /\ delivered = Len(stream)
    /\ frame.kind = "Ok"
    /\ frame.val.children = <<Empty("success")>>

====
